---- MODULE Spec2Model ----
(***************************************************************************)
(* Model of github.com/OrenRosen/async.                                    *)
(*                                                                         *)
(*   Async (src/async.go): RunAsync admits a task through the buffered     *)
(*   channel `guard` (capacity maxGoRoutines) and runs fn on a goroutine   *)
(*   of its own, with a deferred recoverPanic and a deferred               *)
(*   cancel-and-release.                                                   *)
(*                                                                         *)
(*   Pool (src/pool.go): Dispatch sends an item to the buffered channel    *)
(*   `dataChannel` (capacity poolSize) from a goroutine of its own;        *)
(*   numberOfWorkers workers range over the channel and run handleData.    *)
(*                                                                         *)
(*   Contexts (asyncContext in both files): one submission is followed     *)
(*   from the caller's context through the context asyncContext builds     *)
(*   from context.Background() to the context fn sees.                     *)
(*                                                                         *)
(* Time is not modelled by a clock.  A `select` between a channel send and *)
(* `time.After(d)` is modelled as Go executes it for a positive d: the     *)
(* first poll takes the send when it can proceed; otherwise the goroutine  *)
(* parks and is later woken by the send becoming possible or by the timer. *)
(* A context deadline may expire at any moment while the context is live.  *)
(***************************************************************************)
EXTENDS Integers, Sequences, FiniteSets, TLC

\* ---------------------------------------------------------------- bounds
\* number of RunAsync calls made on the launcher
MaxCalls == 3
\* largest value of maxGoRoutines tried (WithMaxGoRoutines)
MaxSlots == 2

\* largest number of propagators (or injectors) registered
MaxRules == 2

\* number of Dispatch calls made on the pool
MaxItems == 3
\* largest value of poolSize tried (WithPoolSize)
MaxPoolSize == 2
\* largest value of numberOfWorkers tried (WithPoolNumberOfWorkers)
MaxWorkers == 2
MaxOptions == 2

Calls == 1..MaxCalls
Items == 1..MaxItems

VARIABLES
    \* ---- Async
    maxGoRoutines,   \* capacity of Async.guard (conf.maxGoRoutines)
    guard,           \* number of tokens buffered in Async.guard
    callerPc,        \* position of the caller of RunAsync(i)
    taskPc,          \* position of the goroutine started by RunAsync(i)
    fnResult,        \* how fn ended: "nil", "err" or "panic"
    ctxErr,          \* ctx.Err() of the context derived by WithTimeout
    fnCalls,         \* number of times fn of call i was invoked
    acquired,        \* number of sends to guard made for call i
    released,        \* number of receives from guard made for call i
    cancelCalls,     \* number of calls of cacnelFunc for call i
    reports,         \* reporter.Error invocations for call i, in order
    \* ---- Pool
    poolSize,        \* capacity of Pool.dataChannel (conf.poolSize)
    numberOfWorkers, \* conf.numberOfWorkers
    dataChannel,     \* the items buffered in Pool.dataChannel, oldest first
    closed,          \* whether dataChannel has been closed
    senderPc,        \* position of the goroutine started by Dispatch(d)
    workerPc,        \* position of worker w
    workerItem,      \* the item worker w is handling (0: none)
    workerCtxErr,    \* ctx.Err() of the context handleData derived
    handled,         \* number of times the handler was invoked with item d
    handlerResult,   \* how the handler ended on item d
    finished,        \* number of times handleData returned for item d
    poolReports,     \* reporter.Error invocations for item d, in order
    enqueued,        \* the items in the order of their sends to dataChannel
    dequeued,        \* the items in the order of their receives
    \* ---- context of one submission (RunAsync or Dispatch)
    flavour,         \* "Async": RunAsync of a launcher, "Pool": Dispatch of a pool
    rules,           \* the registered propagators/injectors, in registration order
    callerCtx,       \* the context the caller passes in
    newCtx,          \* the context returned by asyncContext
    fnCtx,           \* the context passed to fn (or to the pool handler)
    errOf,           \* Err() of each cancellable context: "caller", "task"
    expired,         \* whether the task's own deadline timer has fired
    isoPc,           \* position of the submission
    \* ---- construction of a pool from its options
    poolOptions,     \* the options handed to NewPool, in order
    conf,            \* the PoolConfig NewPool builds
    confPc,          \* position of NewPool
    workerTimeouts,  \* the timeout field of each worker started so far
    derived          \* the timeouts handleData gave to WithTimeout, per worker

asyncVars == <<maxGoRoutines, guard, callerPc, taskPc, fnResult, ctxErr,
               fnCalls, acquired, released, cancelCalls, reports>>

poolVars == <<poolSize, numberOfWorkers, dataChannel, closed, senderPc,
              workerPc, workerItem, workerCtxErr, handled, handlerResult,
              finished, poolReports, enqueued, dequeued>>

isolationVars == <<flavour, rules, callerCtx, newCtx, fnCtx, errOf, expired,
                   isoPc>>

configVars == <<poolOptions, conf, confPc, workerTimeouts, derived>>

vars == <<asyncVars, poolVars, isolationVars, configVars>>

\* ------------------------------------------------------------ src/async.go

\* the ways fn (or a pool handler) can end: return nil, return a non-nil
\* error, panic with a non-nil value
FnOutcomes == {"nil", "err", "panic"}

\* a.reporter.Error(ctx, errorTimeout(fmt.Errorf("async timeout while waiting to guard")))
\* called by the goroutine `unit`
GuardTimeoutReport(unit) ==
    [kind |-> "async timeout while waiting to guard", unit |-> unit]

\* a.reporter.Error(ctx, fmt.Errorf("async func failed: %w", err))
FuncFailedReport(unit) ==
    [kind |-> "async func failed", unit |-> unit]

\* what recover() returns in the deferred recoverPanic: the panic value, or nil
Recover(outcome) == IF outcome = "panic" THEN "panicValue" ELSE "nil"

\* mutant of recoverPanic: the panic is swallowed without a report
recoverPanicSilent(r, unit) == << >>

\* recoverPanic(ctx, reporter): the reports it makes for the recovered value r
\* (an error-shaped value and any other value both end in one reporter.Error)
recoverPanic(r, unit) ==
    IF r # "nil"
    THEN << [kind |-> "mmasyc recoverPanic", unit |-> unit] >>
    ELSE << >>

\* New(options...): the state after construction, for every value of
\* WithMaxGoRoutines in 0..MaxSlots
New ==
    /\ maxGoRoutines \in 0..MaxSlots
    /\ guard = 0
    /\ callerPc = [i \in Calls |-> "idle"]
    /\ taskPc = [i \in Calls |-> "none"]
    /\ fnResult = [i \in Calls |-> "none"]
    /\ ctxErr = [i \in Calls |-> "none"]
    /\ fnCalls = [i \in Calls |-> 0]
    /\ acquired = [i \in Calls |-> 0]
    /\ released = [i \in Calls |-> 0]
    /\ cancelCalls = [i \in Calls |-> 0]
    /\ reports = [i \in Calls |-> << >>]

\* mutant of GuardHasRoom: the capacity test is off by one
GuardHasRoomOffByOne == guard <= maxGoRoutines

\* mutant of GuardHasRoom: a capacity of 0 is taken as no limit
GuardHasRoomZeroUnlimited == maxGoRoutines = 0 \/ guard < maxGoRoutines

\* `a.guard <- struct{}{}` can proceed: the buffered channel has room
GuardHasRoom == guard < maxGoRoutines

\* mutant of Admit: RunAsync calls fn itself and returns when fn has returned
AdmitWaitsForFn(i) ==
    /\ guard' = guard + 1
    /\ acquired' = [acquired EXCEPT ![i] = @ + 1]
    /\ taskPc' = [taskPc EXCEPT ![i] = "spawned"]
    /\ callerPc' = [callerPc EXCEPT ![i] = "waitFn"]
    /\ UNCHANGED <<maxGoRoutines, fnResult, ctxErr, fnCalls, released,
                   cancelCalls, reports>>

\* case a.guard <- struct{}{}: go func() {...}() ; RunAsync returns
Admit(i) ==
    /\ guard' = guard + 1
    /\ acquired' = [acquired EXCEPT ![i] = @ + 1]
    /\ taskPc' = [taskPc EXCEPT ![i] = "spawned"]
    /\ callerPc' = [callerPc EXCEPT ![i] = "returned"]
    /\ UNCHANGED <<maxGoRoutines, fnResult, ctxErr, fnCalls, released,
                   cancelCalls, reports>>

\* mutant of RunAsync: the timer case may win the first poll of the select
\* although the guard has room
RunAsyncTimerMayWin(i) ==
    /\ callerPc[i] = "idle"
    /\ \A j \in Calls : j < i => callerPc[j] # "idle"
    /\ \/ GuardHasRoom /\ Admit(i)
       \/ /\ callerPc' = [callerPc EXCEPT ![i] = "reportTimeout"]
          /\ reports' = [reports EXCEPT ![i] =
                             Append(@, GuardTimeoutReport("caller"))]
          /\ UNCHANGED <<maxGoRoutines, guard, taskPc, fnResult, ctxErr,
                         fnCalls, acquired, released, cancelCalls>>
    /\ UNCHANGED <<poolVars, isolationVars, configVars>>

\* RunAsync(ctx, fn) up to the first poll of the select: the send is taken
\* when the guard has room, otherwise the caller parks on the select.
\* Calls are numbered in the order in which they are made.
RunAsync(i) ==
    /\ callerPc[i] = "idle"
    /\ \A j \in Calls : j < i => callerPc[j] # "idle"
    /\ IF GuardHasRoom
       THEN Admit(i)
       ELSE /\ callerPc' = [callerPc EXCEPT ![i] = "blocked"]
            /\ UNCHANGED <<maxGoRoutines, guard, taskPc, fnResult, ctxErr,
                           fnCalls, acquired, released, cancelCalls, reports>>
    /\ UNCHANGED <<poolVars, isolationVars, configVars>>

\* mutant of AcquireAfterWait: the parked caller is admitted although every
\* slot is held
AcquireAfterWaitIgnoresCapacity(i) ==
    /\ callerPc[i] = "blocked"
    /\ Admit(i)
    /\ UNCHANGED <<poolVars, isolationVars, configVars>>

\* the parked caller is woken because a slot was freed
AcquireAfterWait(i) ==
    /\ callerPc[i] = "blocked"
    /\ GuardHasRoom
    /\ Admit(i)
    /\ UNCHANGED <<poolVars, isolationVars, configVars>>

\* mutant of GuardTimeout: the submission is dropped without a report
GuardTimeoutSilent(i) ==
    /\ callerPc[i] = "blocked"
    /\ ~GuardHasRoom
    /\ callerPc' = [callerPc EXCEPT ![i] = "reportTimeout"]
    /\ UNCHANGED <<maxGoRoutines, guard, taskPc, fnResult, ctxErr, fnCalls,
                   acquired, released, cancelCalls, reports>>
    /\ UNCHANGED <<poolVars, isolationVars, configVars>>

\* case <-time.After(a.timeoutForGuard): the timer fires while the caller is
\* still parked (a freed slot is given to a parked sender by the receive that
\* frees it); a.reporter.Error(...) is called on the caller's goroutine
GuardTimeout(i) ==
    /\ callerPc[i] = "blocked"
    /\ ~GuardHasRoom
    /\ callerPc' = [callerPc EXCEPT ![i] = "reportTimeout"]
    /\ reports' = [reports EXCEPT ![i] = Append(@, GuardTimeoutReport("caller"))]
    /\ UNCHANGED <<maxGoRoutines, guard, taskPc, fnResult, ctxErr, fnCalls,
                   acquired, released, cancelCalls>>
    /\ UNCHANGED <<poolVars, isolationVars, configVars>>

\* the reporter returns and RunAsync returns without running fn
GuardTimeoutReturn(i) ==
    /\ callerPc[i] = "reportTimeout"
    /\ callerPc' = [callerPc EXCEPT ![i] = "returned"]
    /\ UNCHANGED <<maxGoRoutines, guard, taskPc, fnResult, ctxErr, fnCalls,
                   acquired, released, cancelCalls, reports>>
    /\ UNCHANGED <<poolVars, isolationVars, configVars>>

\* the goroutine: ctx, cacnelFunc := context.WithTimeout(...); the two defers
\* are installed; fn(ctx) is invoked
StartTask(i) ==
    /\ taskPc[i] = "spawned"
    /\ taskPc' = [taskPc EXCEPT ![i] = "fn"]
    /\ ctxErr' = [ctxErr EXCEPT ![i] = "nil"]
    /\ fnCalls' = [fnCalls EXCEPT ![i] = @ + 1]
    /\ UNCHANGED <<maxGoRoutines, guard, callerPc, fnResult, acquired,
                   released, cancelCalls, reports>>
    /\ UNCHANGED <<poolVars, isolationVars, configVars>>

\* mutant of DeadlineExceeded: the expiry of the deadline gives the slot back
DeadlineExceededReleasesSlot(i) ==
    /\ ctxErr[i] = "nil"
    /\ ctxErr' = [ctxErr EXCEPT ![i] = "DeadlineExceeded"]
    /\ guard > 0
    /\ guard' = guard - 1
    /\ released' = [released EXCEPT ![i] = @ + 1]
    /\ UNCHANGED <<maxGoRoutines, callerPc, taskPc, fnResult, fnCalls,
                   acquired, cancelCalls, reports>>
    /\ UNCHANGED <<poolVars, isolationVars, configVars>>

\* the timer of context.WithTimeout fires before cacnelFunc is called
DeadlineExceeded(i) ==
    /\ ctxErr[i] = "nil"
    /\ ctxErr' = [ctxErr EXCEPT ![i] = "DeadlineExceeded"]
    /\ UNCHANGED <<maxGoRoutines, guard, callerPc, taskPc, fnResult, fnCalls,
                   acquired, released, cancelCalls, reports>>
    /\ UNCHANGED <<poolVars, isolationVars, configVars>>

\* mutant of FnEnds: a returned error is reported and fn is tried again
FnEndsRetriesOnError(i, o) ==
    /\ taskPc[i] = "fn"
    /\ fnResult' = [fnResult EXCEPT ![i] = o]
    /\ LET made == (IF o = "err" THEN << FuncFailedReport("task") >> ELSE << >>)
                    \o recoverPanic(Recover(o), "task")
       IN  /\ reports' = [reports EXCEPT ![i] = @ \o made]
           /\ taskPc' = [taskPc EXCEPT ![i] =
                            IF o = "err" THEN "spawned"
                            ELSE IF made = << >> THEN "cancel" ELSE "reporting"]
    /\ UNCHANGED <<maxGoRoutines, guard, callerPc, ctxErr, fnCalls, acquired,
                   released, cancelCalls>>
    /\ UNCHANGED <<poolVars, isolationVars, configVars>>

\* fn ends with outcome o.  A returned error is reported by the goroutine; a
\* panic unwinds into the deferred recoverPanic, which reports it; the next
\* position is the reporter's call, or the deferred cancel when nothing is
\* reported
FnEnds(i, o) ==
    /\ taskPc[i] = "fn"
    /\ fnResult' = [fnResult EXCEPT ![i] = o]
    /\ LET made == (IF o = "err" THEN << FuncFailedReport("task") >> ELSE << >>)
                    \o recoverPanic(Recover(o), "task")
       IN  /\ reports' = [reports EXCEPT ![i] = @ \o made]
           /\ taskPc' = [taskPc EXCEPT ![i] =
                            IF made = << >> THEN "cancel" ELSE "reporting"]
    /\ UNCHANGED <<maxGoRoutines, guard, callerPc, ctxErr, fnCalls, acquired,
                   released, cancelCalls>>
    /\ UNCHANGED <<poolVars, isolationVars, configVars>>

\* mutant of ReporterReturns: cancel and release are not deferred, so a panic
\* ends the goroutine without them
ReporterReturnsReleaseNotDeferred(i) ==
    /\ taskPc[i] = "reporting"
    /\ taskPc' = [taskPc EXCEPT ![i] =
                     IF fnResult[i] = "panic" THEN "ended" ELSE "cancel"]
    /\ UNCHANGED <<maxGoRoutines, guard, callerPc, fnResult, ctxErr, fnCalls,
                   acquired, released, cancelCalls, reports>>
    /\ UNCHANGED <<poolVars, isolationVars, configVars>>

\* reporter.Error returns; the remaining defers run
ReporterReturns(i) ==
    /\ taskPc[i] = "reporting"
    /\ taskPc' = [taskPc EXCEPT ![i] = "cancel"]
    /\ UNCHANGED <<maxGoRoutines, guard, callerPc, fnResult, ctxErr, fnCalls,
                   acquired, released, cancelCalls, reports>>
    /\ UNCHANGED <<poolVars, isolationVars, configVars>>

\* mutant of CancelFunc: cacnelFunc is called after fn instead of deferred, so
\* a panic skips it
CancelFuncSkippedOnPanic(i) ==
    /\ taskPc[i] = "cancel"
    /\ taskPc' = [taskPc EXCEPT ![i] = "release"]
    /\ cancelCalls' = [cancelCalls EXCEPT ![i] =
                          IF fnResult[i] = "panic" THEN @ ELSE @ + 1]
    /\ ctxErr' = [ctxErr EXCEPT ![i] =
                     IF @ = "nil" /\ fnResult[i] # "panic" THEN "Canceled" ELSE @]
    /\ UNCHANGED <<maxGoRoutines, guard, callerPc, fnResult, fnCalls,
                   acquired, released, reports>>
    /\ UNCHANGED <<poolVars, isolationVars, configVars>>

\* deferred func, first statement: cacnelFunc()
CancelFunc(i) ==
    /\ taskPc[i] = "cancel"
    /\ taskPc' = [taskPc EXCEPT ![i] = "release"]
    /\ cancelCalls' = [cancelCalls EXCEPT ![i] = @ + 1]
    /\ ctxErr' = [ctxErr EXCEPT ![i] = IF @ = "nil" THEN "Canceled" ELSE @]
    /\ UNCHANGED <<maxGoRoutines, guard, callerPc, fnResult, fnCalls,
                   acquired, released, reports>>
    /\ UNCHANGED <<poolVars, isolationVars, configVars>>

\* deferred func, second statement: <-a.guard
ReleaseSlot(i) ==
    /\ taskPc[i] = "release"
    /\ guard > 0
    /\ guard' = guard - 1
    /\ released' = [released EXCEPT ![i] = @ + 1]
    /\ taskPc' = [taskPc EXCEPT ![i] = "done"]
    /\ UNCHANGED <<maxGoRoutines, callerPc, fnResult, ctxErr, fnCalls,
                   acquired, cancelCalls, reports>>
    /\ UNCHANGED <<poolVars, isolationVars, configVars>>

\* ------------------------------------------------------------- src/pool.go

\* mutant of DispatchTimeoutReport: Dispatch runs its select without `go`, so
\* the timeout is reported on the caller's goroutine
DispatchTimeoutReportOnCaller(unit) ==
    [kind |-> "pool.Dispatch channel is full, timeout waiting for dispatch",
     unit |-> "caller"]

\* p.reporter.Error(ctx, fmt.Errorf("pool.Dispatch channel is full, timeout waiting for dispatch"))
DispatchTimeoutReport(unit) ==
    [kind |-> "pool.Dispatch channel is full, timeout waiting for dispatch",
     unit |-> unit]

\* w.reporter.Error(ctx, fmt.Errorf("async handleData: %w", err))
HandleDataReport(unit) ==
    [kind |-> "async handleData", unit |-> unit]

\* NewPool(fn, options...): the state after construction, for every value of
\* WithPoolSize in 0..MaxPoolSize and of WithPoolNumberOfWorkers in
\* 0..MaxWorkers; every worker has been started and waits on the channel
NewPool ==
    /\ poolSize \in 0..MaxPoolSize
    /\ numberOfWorkers \in 0..MaxWorkers
    /\ dataChannel = << >>
    /\ closed = FALSE
    /\ senderPc = [d \in Items |-> "none"]
    /\ workerPc = [w \in 1..numberOfWorkers |-> "recv"]
    /\ workerItem = [w \in 1..numberOfWorkers |-> 0]
    /\ workerCtxErr = [w \in 1..numberOfWorkers |-> "none"]
    /\ handled = [d \in Items |-> 0]
    /\ handlerResult = [d \in Items |-> "none"]
    /\ finished = [d \in Items |-> 0]
    /\ poolReports = [d \in Items |-> << >>]
    /\ enqueued = << >>
    /\ dequeued = << >>

Workers == DOMAIN workerPc

\* mutant of Dispatch: a semaphore of the queue's capacity limits the sending
\* goroutines that have not ended
DispatchLimitsSenders(d) ==
    /\ senderPc[d] = "none"
    /\ \A e \in Items : e < d => senderPc[e] # "none"
    /\ Cardinality({e \in Items : senderPc[e] \in {"spawned", "blocked",
                                                   "reportTimeout"}}) <= poolSize
    /\ senderPc' = [senderPc EXCEPT ![d] = "spawned"]
    /\ UNCHANGED <<poolSize, numberOfWorkers, dataChannel, closed, workerPc,
                   workerItem, workerCtxErr, handled, handlerResult, finished,
                   poolReports, enqueued, dequeued>>
    /\ UNCHANGED <<asyncVars, isolationVars, configVars>>

\* Dispatch(ctx, data): the context is isolated, the sending goroutine is
\* started and Dispatch returns.  Items are numbered in the order of the
\* Dispatch calls.
Dispatch(d) ==
    /\ senderPc[d] = "none"
    /\ \A e \in Items : e < d => senderPc[e] # "none"
    /\ senderPc' = [senderPc EXCEPT ![d] = "spawned"]
    /\ UNCHANGED <<poolSize, numberOfWorkers, dataChannel, closed, workerPc,
                   workerItem, workerCtxErr, handled, handlerResult, finished,
                   poolReports, enqueued, dequeued>>
    /\ UNCHANGED <<asyncVars, isolationVars, configVars>>

\* mutant of Deliver: the loop starts handleData with `go` and receives on
DeliverInNewGoroutine(w, d) ==
    /\ workerPc' = [workerPc EXCEPT ![w] = "recv"]
    /\ workerItem' = [workerItem EXCEPT ![w] = d]
    /\ workerCtxErr' = [workerCtxErr EXCEPT ![w] = "nil"]
    /\ handled' = [handled EXCEPT ![d] = @ + 1]
    /\ dequeued' = Append(dequeued, d)

\* worker w has received item d: w.handleData(data.ctx, data.data) derives the
\* context with WithTimeout, installs its defers and invokes w.fn
Deliver(w, d) ==
    /\ workerPc' = [workerPc EXCEPT ![w] = "fn"]
    /\ workerItem' = [workerItem EXCEPT ![w] = d]
    /\ workerCtxErr' = [workerCtxErr EXCEPT ![w] = "nil"]
    /\ handled' = [handled EXCEPT ![d] = @ + 1]
    /\ dequeued' = Append(dequeued, d)

\* mutant of ChannelCanSend: the capacity test is off by one
ChannelCanSendOffByOne ==
    IF poolSize = 0
    THEN \E w \in Workers : workerPc[w] = "recv"
    ELSE Len(dataChannel) <= poolSize

\* `p.dataChannel <- dataCtx[T]{...}` can proceed: the buffer has room, or the
\* channel is unbuffered and a worker waits to receive
ChannelCanSend ==
    IF poolSize = 0
    THEN \E w \in Workers : workerPc[w] = "recv"
    ELSE Len(dataChannel) < poolSize

\* the send itself: the item goes to the tail of the buffer, or straight to a
\* waiting worker when the channel is unbuffered
ChannelSend(d) ==
    /\ senderPc' = [senderPc EXCEPT ![d] = "sent"]
    /\ enqueued' = Append(enqueued, d)
    /\ IF poolSize = 0
       THEN /\ \E w \in Workers : workerPc[w] = "recv" /\ Deliver(w, d)
            /\ UNCHANGED dataChannel
       ELSE /\ dataChannel' = Append(dataChannel, d)
            /\ UNCHANGED <<workerPc, workerItem, workerCtxErr, handled,
                           dequeued>>
    /\ UNCHANGED <<poolSize, numberOfWorkers, closed, handlerResult, finished,
                   poolReports>>

\* mutant of SenderPoll: the sends are made by one goroutine, in the order of
\* the Dispatch calls
SenderPollInCallOrder(d) ==
    /\ senderPc[d] = "spawned"
    /\ \A e \in Items : e < d => senderPc[e] # "spawned"
    /\ IF ChannelCanSend
       THEN ChannelSend(d)
       ELSE /\ senderPc' = [senderPc EXCEPT ![d] = "blocked"]
            /\ UNCHANGED <<poolSize, numberOfWorkers, dataChannel, closed,
                           workerPc, workerItem, workerCtxErr, handled,
                           handlerResult, finished, poolReports, enqueued,
                           dequeued>>
    /\ UNCHANGED <<asyncVars, isolationVars, configVars>>

\* the sending goroutine reaches the select: the send is taken when it can
\* proceed, otherwise the goroutine parks on the select
SenderPoll(d) ==
    /\ senderPc[d] = "spawned"
    /\ IF ChannelCanSend
       THEN ChannelSend(d)
       ELSE /\ senderPc' = [senderPc EXCEPT ![d] = "blocked"]
            /\ UNCHANGED <<poolSize, numberOfWorkers, dataChannel, closed,
                           workerPc, workerItem, workerCtxErr, handled,
                           handlerResult, finished, poolReports, enqueued,
                           dequeued>>
    /\ UNCHANGED <<asyncVars, isolationVars, configVars>>

\* the parked sender is woken because the send can proceed
SendAfterWait(d) ==
    /\ senderPc[d] = "blocked"
    /\ ChannelCanSend
    /\ ChannelSend(d)
    /\ UNCHANGED <<asyncVars, isolationVars, configVars>>

\* mutant of InsertTimeout: the select has no timer case, the sender waits on
InsertTimeoutMissing(d) ==
    /\ senderPc[d] = "blocked"
    /\ ~ChannelCanSend
    /\ UNCHANGED <<poolVars, asyncVars, isolationVars, configVars>>

\* mutant of InsertTimeout: the timeout is reported twice
InsertTimeoutReportsTwice(d) ==
    /\ senderPc[d] = "blocked"
    /\ ~ChannelCanSend
    /\ senderPc' = [senderPc EXCEPT ![d] = "reportTimeout"]
    /\ poolReports' = [poolReports EXCEPT ![d] =
                          @ \o << DispatchTimeoutReport("sender"),
                                  DispatchTimeoutReport("sender") >>]
    /\ UNCHANGED <<poolSize, numberOfWorkers, dataChannel, closed, workerPc,
                   workerItem, workerCtxErr, handled, handlerResult, finished,
                   enqueued, dequeued>>
    /\ UNCHANGED <<asyncVars, isolationVars, configVars>>

\* case <-time.After(p.timeoutInsertToPool): the timer fires while the sender
\* is still parked; the error is reported from the sending goroutine
InsertTimeout(d) ==
    /\ senderPc[d] = "blocked"
    /\ ~ChannelCanSend
    /\ senderPc' = [senderPc EXCEPT ![d] = "reportTimeout"]
    /\ poolReports' = [poolReports EXCEPT ![d] =
                          Append(@, DispatchTimeoutReport("sender"))]
    /\ UNCHANGED <<poolSize, numberOfWorkers, dataChannel, closed, workerPc,
                   workerItem, workerCtxErr, handled, handlerResult, finished,
                   enqueued, dequeued>>
    /\ UNCHANGED <<asyncVars, isolationVars, configVars>>

\* mutant of InsertTimeoutReturn: after the report the send is tried again
InsertTimeoutReturnRetries(d) ==
    /\ senderPc[d] = "reportTimeout"
    /\ senderPc' = [senderPc EXCEPT ![d] = "spawned"]
    /\ UNCHANGED <<poolSize, numberOfWorkers, dataChannel, closed, workerPc,
                   workerItem, workerCtxErr, handled, handlerResult, finished,
                   poolReports, enqueued, dequeued>>
    /\ UNCHANGED <<asyncVars, isolationVars, configVars>>

\* the reporter returns and the sending goroutine ends: the item is dropped
InsertTimeoutReturn(d) ==
    /\ senderPc[d] = "reportTimeout"
    /\ senderPc' = [senderPc EXCEPT ![d] = "dropped"]
    /\ UNCHANGED <<poolSize, numberOfWorkers, dataChannel, closed, workerPc,
                   workerItem, workerCtxErr, handled, handlerResult, finished,
                   poolReports, enqueued, dequeued>>
    /\ UNCHANGED <<asyncVars, isolationVars, configVars>>

\* mutant of ChannelRecv: the item is read but stays in the buffer
ChannelRecvKeeps(ch) == [item |-> Head(ch), rest |-> ch]

\* mutant of ChannelRecv: the newest item is taken
ChannelRecvNewest(ch) ==
    [item |-> ch[Len(ch)], rest |-> SubSeq(ch, 1, Len(ch) - 1)]

\* a receive from the buffered channel ch: the oldest item is taken
ChannelRecv(ch) == [item |-> Head(ch), rest |-> Tail(ch)]

\* mutant of WorkerReceive: the workers share one lock around handleData, so
\* a worker receives only while no other worker is handling an item
WorkerReceiveUnderSharedLock(w) ==
    /\ w \in Workers
    /\ workerPc[w] = "recv"
    /\ \A v \in Workers : workerPc[v] = "recv"
    /\ dataChannel # << >>
    /\ Deliver(w, ChannelRecv(dataChannel).item)
    /\ dataChannel' = ChannelRecv(dataChannel).rest
    /\ UNCHANGED <<poolSize, numberOfWorkers, closed, senderPc, handlerResult,
                   finished, poolReports, enqueued>>
    /\ UNCHANGED <<asyncVars, isolationVars, configVars>>

\* `for data := range w.dataChannel`: the worker takes the front item and
\* calls handleData; the loop ends only on a closed and drained channel
WorkerReceive(w) ==
    /\ w \in Workers
    /\ workerPc[w] = "recv"
    /\ IF dataChannel # << >>
       THEN /\ Deliver(w, ChannelRecv(dataChannel).item)
            /\ dataChannel' = ChannelRecv(dataChannel).rest
       ELSE /\ closed
            /\ workerPc' = [workerPc EXCEPT ![w] = "exited"]
            /\ UNCHANGED <<dataChannel, workerItem, workerCtxErr, handled,
                           dequeued>>
    /\ UNCHANGED <<poolSize, numberOfWorkers, closed, senderPc, handlerResult,
                   finished, poolReports, enqueued>>
    /\ UNCHANGED <<asyncVars, isolationVars, configVars>>

\* mutant of WorkerDeadlineExceeded: the expiry abandons the handler: the
\* worker reports it and goes back to its loop
WorkerDeadlineAbandonsHandler(w) ==
    /\ w \in Workers
    /\ workerCtxErr[w] = "nil"
    /\ workerPc[w] = "fn"
    /\ workerCtxErr' = [workerCtxErr EXCEPT ![w] = "DeadlineExceeded"]
    /\ workerPc' = [workerPc EXCEPT ![w] = "reporting"]
    /\ handlerResult' = [handlerResult EXCEPT ![workerItem[w]] = "err"]
    /\ poolReports' = [poolReports EXCEPT ![workerItem[w]] =
                          Append(@, HandleDataReport("worker"))]
    /\ UNCHANGED <<poolSize, numberOfWorkers, dataChannel, closed, senderPc,
                   workerItem, handled, finished, enqueued, dequeued>>
    /\ UNCHANGED <<asyncVars, isolationVars, configVars>>

\* the timer of handleData's context.WithTimeout fires before cacnelFunc
WorkerDeadlineExceeded(w) ==
    /\ w \in Workers
    /\ workerCtxErr[w] = "nil"
    /\ workerCtxErr' = [workerCtxErr EXCEPT ![w] = "DeadlineExceeded"]
    /\ UNCHANGED <<poolSize, numberOfWorkers, dataChannel, closed, senderPc,
                   workerPc, workerItem, handled, handlerResult, finished,
                   poolReports, enqueued, dequeued>>
    /\ UNCHANGED <<asyncVars, isolationVars, configVars>>

\* handleData returns (its deferred cacnelFunc has run) and the worker loops
\* back to the receive of `range`
HandleDataReturns(w) ==
    /\ finished' = [finished EXCEPT ![workerItem[w]] = @ + 1]
    /\ workerItem' = [workerItem EXCEPT ![w] = 0]
    /\ workerCtxErr' = [workerCtxErr EXCEPT ![w] = "none"]

\* mutant of HandlerEnds: handleData has no deferred recoverPanic, so a panic
\* of the handler unwinds the worker's goroutine
HandlerEndsNoRecover(w, o) ==
    /\ w \in Workers
    /\ workerPc[w] = "fn"
    /\ handlerResult' = [handlerResult EXCEPT ![workerItem[w]] = o]
    /\ LET made == IF o = "err" THEN << HandleDataReport("worker") >> ELSE << >>
       IN  /\ poolReports' = [poolReports EXCEPT ![workerItem[w]] = @ \o made]
           /\ IF o = "panic"
              THEN /\ workerPc' = [workerPc EXCEPT ![w] = "dead"]
                   /\ UNCHANGED <<finished, workerItem, workerCtxErr>>
              ELSE IF made = << >>
                   THEN /\ workerPc' = [workerPc EXCEPT ![w] = "recv"]
                        /\ HandleDataReturns(w)
                   ELSE /\ workerPc' = [workerPc EXCEPT ![w] = "reporting"]
                        /\ UNCHANGED <<finished, workerItem, workerCtxErr>>
    /\ UNCHANGED <<poolSize, numberOfWorkers, dataChannel, closed, senderPc,
                   handled, enqueued, dequeued>>
    /\ UNCHANGED <<asyncVars, isolationVars, configVars>>

\* w.fn ends with outcome o in handleData: a returned error is reported, a
\* panic unwinds into the deferred recoverPanic, which reports it; when
\* nothing is reported, the deferred cacnelFunc runs and handleData returns
HandlerEnds(w, o) ==
    /\ w \in Workers
    /\ workerPc[w] = "fn"
    /\ handlerResult' = [handlerResult EXCEPT ![workerItem[w]] = o]
    /\ LET made == (IF o = "err" THEN << HandleDataReport("worker") >> ELSE << >>)
                    \o recoverPanic(Recover(o), "worker")
       IN  /\ poolReports' = [poolReports EXCEPT ![workerItem[w]] = @ \o made]
           /\ IF made = << >>
              THEN /\ workerPc' = [workerPc EXCEPT ![w] = "recv"]
                   /\ HandleDataReturns(w)
              ELSE /\ workerPc' = [workerPc EXCEPT ![w] = "reporting"]
                   /\ UNCHANGED <<finished, workerItem, workerCtxErr>>
    /\ UNCHANGED <<poolSize, numberOfWorkers, dataChannel, closed, senderPc,
                   handled, enqueued, dequeued>>
    /\ UNCHANGED <<asyncVars, isolationVars, configVars>>

\* mutant of WorkerReporterReturns: the worker leaves its loop after a report
WorkerReporterReturnsAndExits(w) ==
    /\ w \in Workers
    /\ workerPc[w] = "reporting"
    /\ workerPc' = [workerPc EXCEPT ![w] = "exited"]
    /\ HandleDataReturns(w)
    /\ UNCHANGED <<poolSize, numberOfWorkers, dataChannel, closed, senderPc,
                   handled, handlerResult, poolReports, enqueued, dequeued>>
    /\ UNCHANGED <<asyncVars, isolationVars, configVars>>

\* reporter.Error returns in handleData; the deferred cacnelFunc runs and
\* handleData returns
WorkerReporterReturns(w) ==
    /\ w \in Workers
    /\ workerPc[w] = "reporting"
    /\ workerPc' = [workerPc EXCEPT ![w] = "recv"]
    /\ HandleDataReturns(w)
    /\ UNCHANGED <<poolSize, numberOfWorkers, dataChannel, closed, senderPc,
                   handled, handlerResult, poolReports, enqueued, dequeued>>
    /\ UNCHANGED <<asyncVars, isolationVars, configVars>>

\* ------------------------------------------- context isolation (both files)

\* the keys and the values of the caller's context
CtxKeys == {"someKey", "someOtherKey"}
CtxValues == {"", "someValue"}

\* what Value returns for a key the context does not carry
NoValue == "nil"

\* A context is the chain of its layers, the root first; context.Background()
\* is the empty chain.  A layer is a value (key, val) or a cancellation
\* point (key: its name in errOf).
Background == << >>

\* context.WithValue(parent, k, v)
WithValue(parent, k, v) ==
    Append(parent, [layer |-> "value", key |-> k, val |-> v])

\* context.WithCancel(parent) and context.WithTimeout(parent, d): a new
\* cancellation point named id
WithCancel(parent, id) ==
    Append(parent, [layer |-> "cancel", key |-> id, val |-> ""])

\* ctx.Value(k): the innermost value layer with key k
RECURSIVE Value(_, _)
Value(ctx, k) ==
    IF ctx = << >> THEN NoValue
    ELSE LET top == ctx[Len(ctx)]
         IN  IF top.layer = "value" /\ top.key = k
             THEN top.val
             ELSE Value(SubSeq(ctx, 1, Len(ctx) - 1), k)

\* the cancellation points ctx descends from
Cancellers(ctx) ==
    {ctx[n].key : n \in {m \in 1..Len(ctx) : ctx[m].layer = "cancel"}}

\* ctx.Err(): the error of the innermost cancellation point (a cancellation
\* of an ancestor has been propagated to it), nil for a context without one
Err(ctx, errs) ==
    LET at == {m \in 1..Len(ctx) : ctx[m].layer = "cancel"}
    IN  IF at = {} THEN "nil"
        ELSE errs[ctx[CHOOSE m \in at : \A n \in at : n <= m].key]

\* A rule (a propagator or an injector) is supplied by the user of the
\* package; the rules considered read one key of the caller's context and
\* write what they read under one key, the same one (as the rule of the
\* example and the one of the tests do) or another
Rules == [src : CtxKeys, dst : CtxKeys]

\* the propagator of the example: the value of key r.src is read from `from`
\* and written to `to` under key r.dst
MoveToContext(r, from, to) == WithValue(to, r.dst, Value(from, r.src))

\* mutant of asyncContext: the new context is derived from the caller's
asyncContextFromCaller(ctx, contextPropagators) == ctx

\* mutant of asyncContext: every propagator is handed context.Background()
\* as destination, so only the last one's output is kept
asyncContextNoFeedForward(ctx, contextPropagators) ==
    IF contextPropagators = << >> THEN Background
    ELSE MoveToContext(contextPropagators[Len(contextPropagators)], ctx,
                       Background)

\* asyncContext(ctx, contextPropagators) of the launcher: starts from
\* context.Background() and applies the propagators in registration order
RECURSIVE asyncContext(_, _)
asyncContext(ctx, contextPropagators) ==
    IF contextPropagators = << >> THEN Background
    ELSE LET n == Len(contextPropagators)
         IN  MoveToContext(contextPropagators[n], ctx,
                 asyncContext(ctx, SubSeq(contextPropagators, 1, n - 1)))

\* (c *ctxCarrier) Set(key, value): c.ctx = context.WithValue(c.ctx, key, value)
CarrierSet(carrier, k, v) == WithValue(carrier, k, v)

\* mutant of Inject: the injector writes the value under another key
InjectUnderOtherKey(r, ctx, carrier) ==
    LET val == Value(ctx, r.src)
    IN  IF val = NoValue \/ val = ""
        THEN carrier
        ELSE CarrierSet(carrier, CHOOSE o \in CtxKeys : o # r.dst, val)

\* the injector of the tests: the value of key r.src is set on the carrier
\* under key r.dst when it is a non-empty string
Inject(r, ctx, carrier) ==
    LET val == Value(ctx, r.src)
    IN  IF val = NoValue THEN carrier
        ELSE IF val # "" THEN CarrierSet(carrier, r.dst, val)
        ELSE carrier

\* (p *Pool) asyncContext(ctx): a carrier over context.Background() is
\* handed to every injector in registration order
RECURSIVE PoolAsyncContext(_, _)
PoolAsyncContext(ctx, contextInjectors) ==
    IF contextInjectors = << >> THEN Background
    ELSE LET n == Len(contextInjectors)
         IN  Inject(contextInjectors[n], ctx,
                 PoolAsyncContext(ctx, SubSeq(contextInjectors, 1, n - 1)))

\* the contexts a caller may pass: cancellable, carrying any of the keys
CallerContext(f) ==
    LET base == WithCancel(Background, "caller")
        one == IF f["someKey"] = NoValue THEN base
               ELSE WithValue(base, "someKey", f["someKey"])
    IN  IF f["someOtherKey"] = NoValue THEN one
        ELSE WithValue(one, "someOtherKey", f["someOtherKey"])

CallerContexts ==
    {CallerContext(f) : f \in [CtxKeys -> CtxValues \cup {NoValue}]}

\* the lists of rules registered by WithContextPropagation or
\* WithPoolContextInjector, in registration order
RuleLists == UNION {[1..n -> Rules] : n \in 0..MaxRules}

\* a launcher or a pool was built with some rules and a caller holds a
\* context; no submission was made yet
InitIsolation ==
    /\ flavour \in {"Async", "Pool"}
    /\ rules \in RuleLists
    /\ callerCtx \in CallerContexts
    /\ newCtx = Background
    /\ fnCtx = Background
    /\ errOf = [c \in {"caller", "task"} |-> IF c = "caller" THEN "nil" ELSE "none"]
    /\ expired = FALSE
    /\ isoPc = "caller"

\* the cancellation of the point c with error e reaches c and every live
\* point derived from it
Propagate(c, e) ==
    [p \in DOMAIN errOf |->
        IF errOf[p] = "nil" /\ (p = c \/ (p = "task" /\ c \in Cancellers(fnCtx)))
        THEN e ELSE errOf[p]]

\* the caller cancels its context, or the caller's deadline passes, at any
\* moment before, during or after the submission
CallerDone(e) ==
    /\ errOf["caller"] = "nil"
    /\ errOf' = Propagate("caller", e)
    /\ UNCHANGED <<flavour, rules, callerCtx, newCtx, fnCtx, expired, isoPc>>
    /\ UNCHANGED <<asyncVars, poolVars, configVars>>

\* first statement of RunAsync and of Dispatch: ctx = asyncContext(ctx, ...)
Isolate ==
    /\ isoPc = "caller"
    /\ newCtx' = IF flavour = "Async"
                 THEN asyncContext(callerCtx, rules)
                 ELSE PoolAsyncContext(callerCtx, rules)
    /\ isoPc' = "isolated"
    /\ UNCHANGED <<flavour, rules, callerCtx, fnCtx, errOf, expired>>
    /\ UNCHANGED <<asyncVars, poolVars, configVars>>

\* ctx, cacnelFunc := context.WithTimeout(ctx, timeout) in the goroutine of
\* RunAsync and in handleData, then fn(ctx); a context derived from one that
\* is done is done from the start
DeriveTimeout ==
    /\ isoPc = "isolated"
    /\ fnCtx' = WithCancel(newCtx, "task")
    /\ errOf' = [errOf EXCEPT !["task"] = Err(newCtx, errOf)]
    /\ isoPc' = "fn"
    /\ UNCHANGED <<flavour, rules, callerCtx, newCtx, expired>>
    /\ UNCHANGED <<asyncVars, poolVars, configVars>>

\* the timer of WithTimeout fires while the context is live
TaskDeadline ==
    /\ isoPc \in {"fn", "ended"}
    /\ errOf["task"] = "nil"
    /\ errOf' = Propagate("task", "DeadlineExceeded")
    /\ expired' = TRUE
    /\ UNCHANGED <<flavour, rules, callerCtx, newCtx, fnCtx, isoPc>>
    /\ UNCHANGED <<asyncVars, poolVars, configVars>>

\* fn (or the handler) ends, by a return or by a recovered panic
FnOver ==
    /\ isoPc = "fn"
    /\ isoPc' = "ended"
    /\ UNCHANGED <<flavour, rules, callerCtx, newCtx, fnCtx, errOf, expired>>
    /\ UNCHANGED <<asyncVars, poolVars, configVars>>

\* the deferred cacnelFunc()
Teardown ==
    /\ isoPc = "ended"
    /\ errOf' = Propagate("task", "Canceled")
    /\ isoPc' = "torn"
    /\ UNCHANGED <<flavour, rules, callerCtx, newCtx, fnCtx, expired>>
    /\ UNCHANGED <<asyncVars, poolVars, configVars>>

\* ----------------------------------- construction of a pool (both files)

\* durations are counted in seconds
defaultTimeoutForGoRoutine == 5
defaulttimeoutInsertToPool == 5
defaultNumWorkers == 10

\* the durations and the numbers of workers handed to the options
Durations == {1, 2}
WorkerCounts == {1, 2}

\* conf := PoolConfig{...} in NewPool; timeoutForFN, the field declared in
\* option.go, is not named by the literal and has its zero value
PoolConfigLiteral ==
    [timeoutForFN |-> 0,
     timeoutForInsertToPool |-> defaulttimeoutInsertToPool,
     timeoutForGoroutine |-> defaultTimeoutForGoRoutine,
     numberOfWorkers |-> defaultNumWorkers]

\* WithPoolTimeoutForFN(t): conf.timeoutForFN = t
WithPoolTimeoutForFN(c, t) == [c EXCEPT !.timeoutForFN = t]

\* WithPoolTimeoutInsertToPool(t): conf.timeoutForInsertToPool = t
WithPoolTimeoutInsertToPool(c, t) == [c EXCEPT !.timeoutForInsertToPool = t]

\* WithPoolNumberOfWorkers(n): conf.numberOfWorkers = n
WithPoolNumberOfWorkers(c, n) == [c EXCEPT !.numberOfWorkers = n]

\* the options a caller may hand to NewPool
PoolOptions ==
    [name : {"WithPoolTimeoutForFN", "WithPoolTimeoutInsertToPool"},
     arg : Durations]
    \cup [name : {"WithPoolNumberOfWorkers"}, arg : WorkerCounts]

OptionLists == UNION {[1..n -> PoolOptions] : n \in 0..MaxOptions}

\* op(&conf)
ApplyOption(op, c) ==
    IF op.name = "WithPoolTimeoutForFN" THEN WithPoolTimeoutForFN(c, op.arg)
    ELSE IF op.name = "WithPoolTimeoutInsertToPool"
         THEN WithPoolTimeoutInsertToPool(c, op.arg)
         ELSE WithPoolNumberOfWorkers(c, op.arg)

\* for _, op := range options { op(&conf) }
RECURSIVE ApplyOptions(_, _)
ApplyOptions(options, c) ==
    IF options = << >> THEN c
    ELSE ApplyOptions(Tail(options), ApplyOption(Head(options), c))

\* NewPool(fn, options...) is called: the literal is built
InitConfig ==
    /\ poolOptions \in OptionLists
    /\ conf = PoolConfigLiteral
    /\ confPc = "options"
    /\ workerTimeouts = << >>
    /\ derived = {}

\* the loop over the options
RunOptions ==
    /\ confPc = "options"
    /\ conf' = ApplyOptions(poolOptions, conf)
    /\ confPc' = "workers"
    /\ UNCHANGED <<poolOptions, workerTimeouts, derived>>
    /\ UNCHANGED <<asyncVars, poolVars, isolationVars>>

\* one turn of the loop that starts the workers:
\* w := worker[T]{..., timeout: conf.timeoutForGoroutine}; w.startReceivingData()
StartWorker ==
    /\ confPc = "workers"
    /\ Len(workerTimeouts) < conf.numberOfWorkers
    /\ workerTimeouts' = Append(workerTimeouts, conf.timeoutForGoroutine)
    /\ UNCHANGED <<poolOptions, conf, confPc, derived>>
    /\ UNCHANGED <<asyncVars, poolVars, isolationVars>>

\* the loop is over and NewPool returns the pool
NewPoolReturns ==
    /\ confPc = "workers"
    /\ Len(workerTimeouts) = conf.numberOfWorkers
    /\ confPc' = "built"
    /\ UNCHANGED <<poolOptions, conf, workerTimeouts, derived>>
    /\ UNCHANGED <<asyncVars, poolVars, isolationVars>>

\* worker w handles an item dispatched to the pool NewPool returned:
\* ctx, cacnelFunc := context.WithTimeout(ctx, w.timeout)
HandleDataDerives(w) ==
    /\ confPc = "built"
    /\ w \in 1..Len(workerTimeouts)
    /\ derived' = derived \cup {[worker |-> w, timeout |-> workerTimeouts[w]]}
    /\ UNCHANGED <<poolOptions, conf, confPc, workerTimeouts>>
    /\ UNCHANGED <<asyncVars, poolVars, isolationVars>>

\* ------------------------------------------------------------ specifications

\* no pool is built: there is no worker and no Dispatch call is made
NoPool ==
    /\ poolSize = 0
    /\ numberOfWorkers = 0
    /\ dataChannel = << >>
    /\ closed = FALSE
    /\ senderPc = [d \in Items |-> "off"]
    /\ workerPc = << >>
    /\ workerItem = << >>
    /\ workerCtxErr = << >>
    /\ handled = [d \in Items |-> 0]
    /\ handlerResult = [d \in Items |-> "none"]
    /\ finished = [d \in Items |-> 0]
    /\ poolReports = [d \in Items |-> << >>]
    /\ enqueued = << >>
    /\ dequeued = << >>

\* no launcher is built: no RunAsync call is made
NoAsync ==
    /\ maxGoRoutines = 0
    /\ guard = 0
    /\ callerPc = [i \in Calls |-> "off"]
    /\ taskPc = [i \in Calls |-> "off"]
    /\ fnResult = [i \in Calls |-> "none"]
    /\ ctxErr = [i \in Calls |-> "none"]
    /\ fnCalls = [i \in Calls |-> 0]
    /\ acquired = [i \in Calls |-> 0]
    /\ released = [i \in Calls |-> 0]
    /\ cancelCalls = [i \in Calls |-> 0]
    /\ reports = [i \in Calls |-> << >>]

\* no submission is followed through its contexts in the specifications of
\* the launcher and of the pool
NoIsolation ==
    /\ flavour = "none"
    /\ rules = << >>
    /\ callerCtx = << >>
    /\ newCtx = << >>
    /\ fnCtx = << >>
    /\ errOf = << >>
    /\ expired = FALSE
    /\ isoPc = "off"

\* the construction of a pool from its options is not followed in the other
\* specifications
NoConfig ==
    /\ poolOptions = << >>
    /\ conf = << >>
    /\ confPc = "off"
    /\ workerTimeouts = << >>
    /\ derived = {}

InitAsync == New /\ NoPool /\ NoIsolation /\ NoConfig

NextAsync ==
    \E i \in Calls :
        \/ RunAsync(i)
        \/ AcquireAfterWait(i)
        \/ GuardTimeout(i)
        \/ GuardTimeoutReturn(i)
        \/ StartTask(i)
        \/ DeadlineExceeded(i)
        \/ \E o \in FnOutcomes : FnEnds(i, o)
        \/ ReporterReturns(i)
        \/ CancelFunc(i)
        \/ ReleaseSlot(i)

SpecAsync == InitAsync /\ [][NextAsync]_vars

\* The launcher under the scheduling Go guarantees to the caller: a parked
\* select is woken by the send or by its timer, and the reporter (a call into
\* the user's code, assumed to return) returns.  Nothing is assumed of fn: it
\* may run forever.
FairCallers ==
    \A i \in Calls :
        /\ WF_vars(AcquireAfterWait(i) \/ GuardTimeout(i))
        /\ WF_vars(GuardTimeoutReturn(i))

SpecAsyncFair == SpecAsync /\ FairCallers

InitPool == NewPool /\ NoAsync /\ NoIsolation /\ NoConfig

NextPool ==
    \/ \E d \in Items :
        \/ Dispatch(d)
        \/ SenderPoll(d)
        \/ SendAfterWait(d)
        \/ InsertTimeout(d)
        \/ InsertTimeoutReturn(d)
    \/ \E w \in 1..MaxWorkers :
        \/ WorkerReceive(w)
        \/ \E o \in FnOutcomes : HandlerEnds(w, o)
        \/ WorkerReporterReturns(w)

SpecPool == InitPool /\ [][NextPool]_vars

\* The scheduling of worker w: its goroutine is not starved at the receive,
\* and the reporter it calls returns
FairWorker(w) ==
    /\ WF_vars(WorkerReceive(w))
    /\ WF_vars(WorkerReporterReturns(w))

\* the handler run by worker w returns, normally, with an error or by a panic
HandlerReturns(w) == WF_vars(\E o \in FnOutcomes : HandlerEnds(w, o))

\* The pool under fair scheduling with handlers that always return
SpecPoolFair ==
    SpecPool /\ \A w \in 1..MaxWorkers : FairWorker(w) /\ HandlerReturns(w)

\* The pool under fair scheduling where the handler run by the first worker
\* may never return, while the handlers run by the other workers return
SpecPoolOneBlocked ==
    /\ SpecPool
    /\ \A w \in 1..MaxWorkers : FairWorker(w)
    /\ \A w \in 2..MaxWorkers : HandlerReturns(w)

\* The pool under the scheduling Go guarantees to the goroutine Dispatch
\* starts: it reaches its select, a parked select is woken by the send or by
\* its timer, and the reporter (assumed to return) returns.  Nothing is
\* assumed of the workers: they may never free space in the queue.
FairSenders ==
    \A d \in Items :
        /\ WF_vars(SenderPoll(d))
        /\ WF_vars(SendAfterWait(d) \/ InsertTimeout(d))
        /\ WF_vars(InsertTimeoutReturn(d))

SpecPoolFairSenders == SpecPool /\ FairSenders

\* The pool with the expiry of the handlers' deadlines.  WorkerDeadlineExceeded
\* changes workerCtxErr alone and no other action reads workerCtxErr, so
\* SpecPool reaches the same values of every other variable.
NextPoolTimed ==
    \/ NextPool
    \/ \E w \in 1..MaxWorkers : WorkerDeadlineExceeded(w)

SpecPoolTimed == InitPool /\ [][NextPoolTimed]_vars

\* A program that builds a launcher or a pool: the behaviours of SpecAsync
\* and those of SpecPool
InitEither == InitAsync \/ InitPool

NextEither == NextAsync \/ NextPool

SpecEither == InitEither /\ [][NextEither]_vars

\* the same with the expiry of the handlers' deadlines in the pool
NextEitherTimed == NextAsync \/ NextPoolTimed

SpecEitherTimed == InitEither /\ [][NextEitherTimed]_vars

\* One submission followed through its contexts: the caller's context, the
\* context asyncContext returns and the context fn sees.
InitContext == InitIsolation /\ NoAsync /\ NoPool /\ NoConfig

NextContext ==
    \/ \E e \in {"Canceled", "DeadlineExceeded"} : CallerDone(e)
    \/ Isolate
    \/ DeriveTimeout
    \/ TaskDeadline
    \/ FnOver
    \/ Teardown

SpecContext == InitContext /\ [][NextContext]_vars

\* ------------------------------------------------------- properties: Async

\* the reports of call i of one kind
ReportsOfKind(i, k) == SelectSeq(reports[i], LAMBDA r : r.kind = k)

AdmissionReports(i) == ReportsOfKind(i, "async timeout while waiting to guard")

\* the calls whose fn is executing
RunningFns == {i \in Calls : taskPc[i] = "fn"}

\* the calls that hold a slot: acquired and not yet released
SlotHolders == {i \in Calls : acquired[i] - released[i] = 1}

\* the RunAsync calls made so far
Submitted == {i \in Calls : callerPc[i] # "idle"}

\* C1: the number of held slots never exceeds the capacity maxGoRoutines, and
\* the fns executing at any instant are never more than the held slots
C1_ConcurrencyCap ==
    /\ guard <= maxGoRoutines
    /\ Cardinality(RunningFns) <= guard
    /\ RunningFns \subseteq SlotHolders

\* C1 witness: the launcher is saturated: maxGoRoutines >= 2 fns execute at
\* once while a further caller waits for a slot
C1_Witness ==
    /\ maxGoRoutines >= 2
    /\ Cardinality(RunningFns) = maxGoRoutines
    /\ \E i \in Calls : callerPc[i] = "blocked"

\* C2: a slot is released exactly once for every acquire and on every way fn
\* can end: once fn has ended the goroutine is on its way through the
\* deferred report, cancel and release, it ends only after the release, no
\* call releases twice or without having acquired, and the tokens in the
\* guard are exactly the slots acquired and not yet released
C2_ReleasedExactlyOnce ==
    /\ \A i \in Calls :
        /\ acquired[i] \in {0, 1}
        /\ released[i] \in {0, 1}
        /\ released[i] <= acquired[i]
        /\ fnResult[i] # "none" =>
              taskPc[i] \in {"reporting", "cancel", "release", "done"}
        /\ (released[i] = 1) <=> (taskPc[i] = "done")
        /\ taskPc[i] = "done" => fnResult[i] \in FnOutcomes
    /\ guard = Cardinality(SlotHolders)

\* C2 witness: three tasks have ended, by nil, by an error and by a panic, one
\* of them after its deadline had expired, and each has released its slot
C2_Witness ==
    /\ \A o \in FnOutcomes : \E i \in Calls :
          taskPc[i] = "done" /\ fnResult[i] = o /\ released[i] = 1
    /\ \E i \in Calls :
          /\ taskPc[i] = "done"
          /\ fnResult[i] = "panic"
          /\ ctxErr[i] = "DeadlineExceeded"
    /\ guard = 0

\* C3: a RunAsync call that has returned either acquired a slot, made no
\* admission report and has its fn invoked once (or about to be, on the
\* goroutine it started), or timed out, made exactly one admission report and
\* never has its fn invoked; before it returns a call has made no report
\* unless it is in the reporter of its timeout
C3_AdmittedOrReported ==
    \A i \in Calls :
        /\ fnCalls[i] <= 1
        /\ callerPc[i] = "returned" =>
            \/ /\ acquired[i] = 1
               /\ AdmissionReports(i) = << >>
               /\ IF taskPc[i] = "spawned" THEN fnCalls[i] = 0 ELSE fnCalls[i] = 1
            \/ /\ acquired[i] = 0
               /\ Len(AdmissionReports(i)) = 1
               /\ Len(reports[i]) = 1
               /\ taskPc[i] = "none"
               /\ fnCalls[i] = 0
        /\ callerPc[i] = "reportTimeout" =>
              Len(AdmissionReports(i)) = 1 /\ acquired[i] = 0 /\ fnCalls[i] = 0
        /\ callerPc[i] \in {"idle", "blocked"} =>
              reports[i] = << >> /\ acquired[i] = 0 /\ fnCalls[i] = 0

\* C3 witness: one call was admitted and its fn ran, another timed out on the
\* guard, was reported once and has returned
C3_Witness ==
    \E i, j \in Calls :
        /\ callerPc[i] = "returned" /\ acquired[i] = 1 /\ taskPc[i] = "done"
        /\ callerPc[j] = "returned" /\ acquired[j] = 0
        /\ Len(AdmissionReports(j)) = 1

\* C4: as long as the calls made are no more than maxGoRoutines, every call
\* made has been admitted at once (none waits, none is reported as timed out)
\* and its fn is invoked, or about to be on the goroutine started for it
C4_NoTimeoutWithinCapacity ==
    Cardinality(Submitted) <= maxGoRoutines =>
        \A i \in Submitted :
            /\ callerPc[i] = "returned"
            /\ acquired[i] = 1
            /\ AdmissionReports(i) = << >>
            /\ taskPc[i] # "none"
            /\ taskPc[i] # "spawned" => fnCalls[i] = 1

\* C4 witness: as many calls as slots (two or more) were made and all their
\* fns execute at the same time
C4_Witness ==
    /\ maxGoRoutines >= 2
    /\ Cardinality(Submitted) = maxGoRoutines
    /\ RunningFns = Submitted

\* C5: a panic of fn stays in its goroutine: the goroutine goes on through
\* the deferred steps, exactly one report (recoverPanic's) is made for the
\* task, its slot is released when it ends, and the guard then holds exactly
\* the tokens of the unfinished tasks, as after a normal return
C5_PanicContained ==
    /\ \A i \in Calls :
        fnResult[i] = "panic" =>
            /\ taskPc[i] \in {"reporting", "cancel", "release", "done"}
            /\ Len(reports[i]) = 1
            /\ reports[i][1].kind = "mmasyc recoverPanic"
            /\ taskPc[i] = "done" => released[i] = 1
    /\ guard = Cardinality({i \in Calls :
                   taskPc[i] \in {"spawned", "fn", "reporting", "cancel",
                                  "release"}})

\* C5 witness: with a single slot, a task panicked and ended, and a call made
\* later was admitted and its fn runs
C5_Witness ==
    /\ maxGoRoutines = 1
    /\ \E i, j \in Calls :
        /\ i < j
        /\ taskPc[i] = "done" /\ fnResult[i] = "panic"
        /\ taskPc[j] = "fn" /\ fnCalls[j] = 1

\* C13: while all maxGoRoutines slots are held, a waiting RunAsync call is
\* not admitted; the step by which its timer fires happens only then, makes
\* exactly one admission-timeout report and leaves the guard and every other
\* call (its goroutine, fn's result, its reports, its slot) as they were; the
\* call that timed out has one report and its fn is never invoked
C13_SaturatedCallTimesOut ==
    /\ [](\A i \in Calls :
            callerPc[i] \in {"reportTimeout", "returned"} /\ acquired[i] = 0 =>
                /\ reports[i] = << GuardTimeoutReport("caller") >>
                /\ fnCalls[i] = 0
                /\ taskPc[i] = "none")
    /\ [][\A i \in Calls :
            /\ callerPc[i] = "blocked" /\ guard = maxGoRoutines =>
                  acquired'[i] = 0 /\ callerPc'[i] \in {"blocked", "reportTimeout"}
            /\ callerPc[i] = "blocked" /\ callerPc'[i] = "reportTimeout" =>
                  /\ guard = maxGoRoutines
                  /\ guard' = guard
                  /\ reports'[i] = << GuardTimeoutReport("caller") >>
                  /\ <<taskPc, fnResult, fnCalls, acquired, released, ctxErr>>' =
                        <<taskPc, fnResult, fnCalls, acquired, released, ctxErr>>
                  /\ \A j \in Calls \ {i} :
                        reports'[j] = reports[j] /\ callerPc'[j] = callerPc[j]
       ]_vars

\* C13 witness: with two slots, the third call timed out and returned without
\* its fn invoked; the two fns that held the slots have since returned nil
\* and released them
C13_Witness ==
    /\ maxGoRoutines = 2
    /\ \A i \in {1, 2} :
          taskPc[i] = "done" /\ fnResult[i] = "nil" /\ released[i] = 1
          /\ reports[i] = << >>
    /\ callerPc[3] = "returned" /\ acquired[3] = 0 /\ fnCalls[3] = 0
    /\ Len(AdmissionReports(3)) = 1
    /\ guard = 0

\* C16: RunAsync returns without waiting for fn: the step that acquires the
\* slot starts the goroutine and returns, fn not yet invoked; and every call
\* that waits for a slot returns, also when no fn ever returns
C16_RunAsyncReturns ==
    /\ [][\A i \in Calls :
            acquired'[i] # acquired[i] =>
                /\ callerPc'[i] = "returned"
                /\ taskPc'[i] = "spawned"
                /\ fnCalls'[i] = 0
       ]_vars
    /\ \A i \in Calls :
          (callerPc[i] \in {"blocked", "reportTimeout"}) ~> (callerPc[i] = "returned")

\* C16 witness: every call made has returned, one of them after the guard
\* timeout, while the fn of the first call is still running past its deadline
C16_Witness ==
    /\ maxGoRoutines = 1
    /\ \A i \in Calls : callerPc[i] = "returned"
    /\ taskPc[1] = "fn" /\ ctxErr[1] = "DeadlineExceeded"
    /\ acquired[2] = 0 /\ acquired[3] = 0

\* -------------------------------------------------------- properties: Pool

\* the reports of item d of one kind
PoolReportsOfKind(d, k) == SelectSeq(poolReports[d], LAMBDA r : r.kind = k)

DispatchTimeoutReports(d) ==
    PoolReportsOfKind(d, "pool.Dispatch channel is full, timeout waiting for dispatch")

\* the number of times item d occurs in the sequence q
Count(q, d) == Cardinality({k \in 1..Len(q) : q[k] = d})

\* every Dispatch call was made, every sending goroutine has ended, the queue
\* is empty and every worker waits on the channel
PoolQuiescent ==
    /\ \A d \in Items : senderPc[d] \in {"sent", "dropped"}
    /\ dataChannel = << >>
    /\ \A w \in Workers : workerPc[w] = "recv"

\* C6: no worker ever leaves its loop: there are always numberOfWorkers
\* workers, each waiting on the channel, in the handler or in the reporter;
\* an item whose handler returned an error or panicked has exactly one report
\* (of the matching kind), made by the worker, which holds the item until the
\* reporter returns and is then free of it, back in its loop
C6_WorkerStaysInLoop ==
    /\ Workers = 1..numberOfWorkers
    /\ \A w \in Workers :
        /\ workerPc[w] \in {"recv", "fn", "reporting"}
        /\ workerPc[w] = "recv" <=> workerItem[w] = 0
        /\ workerPc[w] = "reporting" =>
              /\ handlerResult[workerItem[w]] \in {"err", "panic"}
              /\ finished[workerItem[w]] = 0
    /\ \A d \in Items :
        /\ handlerResult[d] \in {"err", "panic"} =>
              /\ Len(poolReports[d]) = 1
              /\ poolReports[d][1].kind =
                    IF handlerResult[d] = "err"
                    THEN "async handleData" ELSE "mmasyc recoverPanic"
              /\ poolReports[d][1].unit = "worker"
        /\ handlerResult[d] # "none" /\ finished[d] = 0 =>
              \E w \in Workers : workerItem[w] = d /\ workerPc[w] = "reporting"
        /\ finished[d] >= 1 =>
              /\ handlerResult[d] # "none"
              /\ \A w \in Workers : workerItem[w] # d

\* C6 witness: the only worker of the pool handled an item whose handler
\* panicked and one whose handler returned an error, and now runs the handler
\* of a third item
C6_Witness ==
    /\ numberOfWorkers = 1
    /\ \E d, e \in Items :
        /\ handlerResult[d] = "panic" /\ finished[d] = 1
        /\ handlerResult[e] = "err" /\ finished[e] = 1
    /\ \E f \in Items : workerItem[1] = f /\ workerPc[1] = "fn"

C8_EnqueuedOrDropped ==
    \A d \in Items :
        /\ senderPc[d] \in {"none", "spawned", "blocked", "reportTimeout",
                            "sent", "dropped"}
        /\ senderPc[d] = "sent" =>
              /\ DispatchTimeoutReports(d) = << >>
              /\ Count(enqueued, d) = 1
              /\ Count(dequeued, d) <= 1
        /\ senderPc[d] \in {"reportTimeout", "dropped"} =>
              /\ poolReports[d] = << DispatchTimeoutReport("sender") >>
              /\ Count(enqueued, d) = 0
              /\ Count(dataChannel, d) = 0
              /\ Count(dequeued, d) = 0
              /\ handled[d] = 0
        /\ senderPc[d] \in {"none", "spawned", "blocked"} =>
              /\ poolReports[d] = << >>
              /\ Count(enqueued, d) = 0

\* C8 witness: the pool is idle again; one item was dropped after its timeout
\* report and stayed dropped while another one was sent and handled
C8_Witness ==
    /\ PoolQuiescent
    /\ numberOfWorkers >= 1
    /\ \E d, e \in Items :
        /\ senderPc[d] = "dropped" /\ handled[d] = 0
        /\ senderPc[e] = "sent" /\ finished[e] = 1 /\ d < e

\* C9: the receives take the items in the order of their sends: the items
\* received so far are a prefix of the items sent, and the buffer holds the
\* rest in that order
C9_FIFO ==
    /\ Len(dequeued) <= Len(enqueued)
    /\ \A k \in 1..Len(dequeued) : dequeued[k] = enqueued[k]
    /\ enqueued = dequeued \o dataChannel

\* C9 witness: three items were sent by their senders in an order other than
\* that of the Dispatch calls, two are received by the workers and one waits
C9_Witness ==
    /\ numberOfWorkers >= 2
    /\ Len(enqueued) >= 3
    /\ enqueued[1] > enqueued[2]
    /\ Len(dequeued) = 2
    /\ Len(dataChannel) = 1

\* C10: the queue never holds more than poolSize items and is never closed
C10_QueueBounded ==
    /\ Len(dataChannel) <= poolSize
    /\ closed = FALSE

\* C10 witness: a queue of capacity two or more is full and a sender waits
C10_Witness ==
    /\ poolSize >= 2
    /\ Len(dataChannel) = poolSize
    /\ \E d \in Items : senderPc[d] = "blocked"

\* the pool of the scenario: one worker, queue capacity one
OneWorkerOneSlot == numberOfWorkers = 1 /\ poolSize = 1

\* C14 as stated: with one worker and queue capacity one, while the first
\* task runs in the worker the second submission is never admitted
C14_SecondDispatchTimesOut ==
    [][ ( /\ OneWorkerOneSlot
          /\ workerPc[1] = "fn" /\ workerItem[1] = 1
          /\ senderPc[2] \in {"spawned", "blocked"} )
        => senderPc'[2] # "sent"
      ]_vars

\* C14 amended: with one worker and queue capacity one, while the worker
\* runs a task, a submission that finds the queue empty is enqueued without a
\* report; a submission that finds the queue full is not admitted, and the
\* step by which its timer fires makes exactly one timeout report and leaves
\* the worker, its task and the queue as they were; a dropped item has one
\* report and is never handled
C14_ThirdDispatchTimesOut ==
    /\ [](\A d \in Items :
            senderPc[d] \in {"reportTimeout", "dropped"} =>
                /\ poolReports[d] = << DispatchTimeoutReport("sender") >>
                /\ handled[d] = 0)
    /\ [][ (OneWorkerOneSlot /\ workerPc[1] = "fn") =>
            \A d \in Items :
              /\ ( /\ senderPc[d] = "spawned" /\ dataChannel = << >>
                   /\ senderPc'[d] # senderPc[d] ) =>
                    /\ senderPc'[d] = "sent"
                    /\ poolReports'[d] = << >>
                    /\ dataChannel' = << d >>
              /\ ( /\ senderPc[d] \in {"spawned", "blocked"}
                   /\ Len(dataChannel) = 1 ) =>
                    senderPc'[d] \in {senderPc[d], "blocked", "reportTimeout"}
              /\ ( senderPc[d] = "blocked" /\ senderPc'[d] = "reportTimeout" ) =>
                    /\ Len(dataChannel) = 1
                    /\ poolReports'[d] = << DispatchTimeoutReport("sender") >>
                    /\ <<workerPc, workerItem, handlerResult, handled, finished,
                         dataChannel>>' =
                       <<workerPc, workerItem, handlerResult, handled, finished,
                         dataChannel>>
      ]_vars

\* C14 witness: one worker, capacity one; the first task was handled and
\* returned nil, the second is still in the queue, the third was dropped
\* after its timeout report
C14_Witness ==
    /\ OneWorkerOneSlot
    /\ dequeued = << 1 >>
    /\ finished[1] = 1 /\ handlerResult[1] = "nil" /\ poolReports[1] = << >>
    /\ dataChannel = << 2 >> /\ poolReports[2] = << >>
    /\ senderPc[3] = "dropped"
    /\ poolReports[3] = << DispatchTimeoutReport("sender") >>

\* C19: with two workers or more, although the handler run by one worker may
\* never return, every item in the queue is eventually received and handed
\* to the handler
C19_OtherWorkersGoOn ==
    \A d \in Items :
        (numberOfWorkers >= 2 /\ Count(dataChannel, d) = 1) ~> (handled[d] = 1)

\* C19 witness: the first worker is still in the handler of the first item
\* while a second worker has handled the two items sent after it
C19_Witness ==
    /\ numberOfWorkers >= 2
    /\ workerPc[1] = "fn" /\ workerItem[1] = 1
    /\ enqueued = << 1, 2, 3 >>
    /\ finished[2] = 1 /\ finished[3] = 1

\* C20: with a worker or more and handlers that return, every item in the
\* queue is eventually received and handed to the handler
C20_EnqueuedEventuallyHandled ==
    \A d \in Items :
        (numberOfWorkers >= 1 /\ Count(dataChannel, d) = 1) ~> (handled[d] = 1)

\* C20 witness: the only worker has handled, in turn, every item of a full
\* queue, one handler returning an error and one panicking
C20_Witness ==
    /\ numberOfWorkers = 1 /\ poolSize >= 1
    /\ PoolQuiescent
    /\ Len(dequeued) = MaxItems
    /\ \A d \in Items : finished[d] = 1
    /\ \E d, e \in Items : handlerResult[d] = "err" /\ handlerResult[e] = "panic"

\* C21: the step of a Dispatch call only starts the sending goroutine: the
\* item is not yet in the queue, nothing is reported and the call has
\* returned; and the sending goroutine always ends, by the send or by the
\* report of the timeout and the drop, also when no worker ever frees space
C21_DispatchReturnsSenderEnds ==
    /\ [][\A d \in Items :
            (senderPc[d] = "none" /\ senderPc'[d] # "none") =>
                /\ senderPc'[d] = "spawned"
                /\ <<enqueued, dataChannel, poolReports, handled>>' =
                   <<enqueued, dataChannel, poolReports, handled>>
       ]_vars
    /\ \A d \in Items :
          (senderPc[d] \in {"spawned", "blocked", "reportTimeout"})
              ~> (senderPc[d] \in {"sent", "dropped"})

\* C21 witness: a pool without any worker and with a full queue: every
\* Dispatch call has returned and every sending goroutine has ended, one by
\* its send, the others by reporting the timeout and dropping the item
C21_Witness ==
    /\ numberOfWorkers = 0 /\ poolSize = 1
    /\ Len(dataChannel) = 1
    /\ \A d \in Items : senderPc[d] \in {"sent", "dropped"}
    /\ Cardinality({d \in Items : senderPc[d] = "dropped"}) = MaxItems - 1

\* C22: the teardown of an admitted task is ordered: while fn runs or the
\* reporter runs, the sub-context is not yet cancelled and the slot is held;
\* the cancel is called only after fn has ended and the reporter has
\* returned; the slot is released only after the cancel; a finished task has
\* been cancelled once and released once, whatever the outcome of fn
C22_TeardownOrder ==
    \A i \in Calls :
        /\ taskPc[i] \in {"spawned", "fn", "reporting", "cancel"} =>
              /\ cancelCalls[i] = 0 /\ released[i] = 0
              /\ acquired[i] = 1 /\ guard >= 1
        /\ taskPc[i] = "reporting" =>
              fnResult[i] \in {"err", "panic"} /\ reports[i] # << >>
        /\ cancelCalls[i] >= 1 =>
              /\ fnResult[i] # "none"
              /\ taskPc[i] \in {"release", "done"}
        /\ taskPc[i] = "release" =>
              cancelCalls[i] = 1 /\ released[i] = 0 /\ guard >= 1
        /\ released[i] >= 1 => cancelCalls[i] = 1 /\ taskPc[i] = "done"
        /\ taskPc[i] = "done" =>
              /\ cancelCalls[i] = 1 /\ released[i] = 1
              /\ fnResult[i] \in FnOutcomes

\* C22 witness: the reporter is running for a task whose fn panicked, its
\* slot still held and its context not yet cancelled, while a task whose fn
\* returned an error has been through report, cancel and release
C22_Witness ==
    \E i, j \in Calls :
        /\ taskPc[i] = "reporting" /\ fnResult[i] = "panic"
        /\ cancelCalls[i] = 0 /\ released[i] = 0 /\ guard >= 1
        /\ taskPc[j] = "done" /\ fnResult[j] = "err"
        /\ cancelCalls[j] = 1 /\ released[j] = 1

\* the items whose handler has been invoked and whose handleData has not
\* returned, and the items admitted to the queue whose handleData has not
\* returned
InHandler == {d \in Items : handled[d] >= 1 /\ finished[d] = 0}
AdmittedUnfinished == {d \in Items : Count(enqueued, d) >= 1 /\ finished[d] = 0}

\* C23: a worker waiting to receive holds no item and no derived context; a
\* worker in the handler or in the reporter holds exactly one item, which no
\* other worker holds; the items in a handler are the items the busy workers
\* hold, so at most numberOfWorkers; the admitted and unfinished items are
\* in the queue or with a worker, so at most poolSize + numberOfWorkers
C23_OneItemPerWorker ==
    /\ \A w \in Workers :
          /\ workerPc[w] = "recv" =>
                workerItem[w] = 0 /\ workerCtxErr[w] = "none"
          /\ workerPc[w] \in {"fn", "reporting"} =>
                /\ workerItem[w] \in Items
                /\ workerCtxErr[w] # "none"
                /\ handled[workerItem[w]] = 1
                /\ finished[workerItem[w]] = 0
          /\ \A v \in Workers :
                (v # w /\ workerItem[w] # 0) => workerItem[v] # workerItem[w]
    /\ InHandler = {workerItem[w] : w \in Workers} \ {0}
    /\ Cardinality(InHandler) <= numberOfWorkers
    /\ Cardinality(AdmittedUnfinished) <= poolSize + numberOfWorkers

\* C23 witness: one worker and a queue of one: the worker is in the reporter
\* for its second item, the first is finished, the third waits in the queue:
\* poolSize + numberOfWorkers admitted items are unfinished
C23_Witness ==
    /\ OneWorkerOneSlot
    /\ workerPc[1] = "reporting"
    /\ Len(dequeued) = 2
    /\ finished[dequeued[1]] = 1
    /\ workerItem[1] = dequeued[2]
    /\ Len(dataChannel) = 1
    /\ Cardinality(AdmittedUnfinished) = 2

\* NewPool with every list of options, followed until its workers derive the
\* contexts of the items they handle
InitPoolConfig == InitConfig /\ NoAsync /\ NoPool /\ NoIsolation

NextPoolConfig ==
    \/ RunOptions
    \/ StartWorker
    \/ NewPoolReturns
    \/ \E w \in 1..defaultNumWorkers : HandleDataDerives(w)

SpecPoolConfig == InitPoolConfig /\ [][NextPoolConfig]_vars

\* every slot is held by an admitted task whose fn has not returned
AllSlotsStuck ==
    Cardinality({j \in Calls : taskPc[j] \in {"spawned", "fn"}}) = maxGoRoutines

\* C26: a slot is released only after fn has returned, and the expiry of the
\* task's deadline changes neither the guard nor the releases, so a task
\* whose deadline has passed while fn runs still holds its slot.  While every
\* slot is held by a task whose fn has not returned, no call is admitted: a
\* call made then parks, a parked call can only time out with exactly one
\* admission-timeout report and return, and its fn is never invoked; such a
\* call does end in that report unless some fn returns after all
C26_DeadlineKeepsSlot ==
    /\ [](\A i \in Calls :
            /\ released[i] >= 1 => fnResult[i] # "none"
            /\ taskPc[i] \in {"spawned", "fn"} =>
                  acquired[i] - released[i] = 1 /\ guard >= 1)
    /\ [](guard >= Cardinality({j \in Calls : taskPc[j] \in {"spawned", "fn"}}))
    /\ [][\A i \in Calls :
            /\ ctxErr[i] # "DeadlineExceeded" /\ ctxErr'[i] = "DeadlineExceeded" =>
                  <<guard, released, acquired, taskPc>>' =
                  <<guard, released, acquired, taskPc>>
            /\ AllSlotsStuck /\ callerPc'[i] # callerPc[i] =>
                  /\ acquired'[i] = 0 /\ fnCalls'[i] = 0 /\ taskPc'[i] = "none"
                  /\ callerPc[i] = "idle" => callerPc'[i] = "blocked"
                  /\ callerPc[i] = "blocked" =>
                        /\ callerPc'[i] = "reportTimeout"
                        /\ reports'[i] = << GuardTimeoutReport("caller") >>
                  /\ callerPc[i] = "reportTimeout" =>
                        /\ callerPc'[i] = "returned"
                        /\ reports'[i] = << GuardTimeoutReport("caller") >>
       ]_vars
    /\ \A i \in Calls :
          (callerPc[i] = "blocked" /\ AllSlotsStuck)
              ~> \/ ~AllSlotsStuck
                 \/ /\ callerPc[i] = "returned"
                    /\ reports[i] = << GuardTimeoutReport("caller") >>
                    /\ fnCalls[i] = 0

\* C26 witness: both slots are held by tasks whose deadline has expired and
\* whose fn still runs; the third call, made later, has ended in one
\* admission-timeout report without its fn invoked
C26_Witness ==
    /\ maxGoRoutines = 2
    /\ \A i \in {1, 2} :
          taskPc[i] = "fn" /\ ctxErr[i] = "DeadlineExceeded" /\ released[i] = 0
    /\ guard = 2
    /\ callerPc[3] = "returned" /\ fnCalls[3] = 0 /\ taskPc[3] = "none"
    /\ reports[3] = << GuardTimeoutReport("caller") >>

\* C27: nothing orders the sending goroutines of two Dispatch calls: while
\* both are started and neither has reached its select, the select of the
\* later call can be taken as well as that of the earlier one, whatever the
\* number of workers and the free space; and the items are received in the
\* order of their sends, whatever the order of the calls
C27_EnqueueOrderNotCallOrder ==
    /\ \A d, e \in Items :
          (d < e /\ senderPc[d] = "spawned" /\ senderPc[e] = "spawned") =>
              (ENABLED SenderPoll(e)) /\ (ENABLED SenderPoll(d))
    /\ \A k \in 1..Len(dequeued) : dequeued[k] = enqueued[k]

\* C27 witness: one worker and a queue with room for two: the second
\* Dispatch call's item was sent and received before the first call's item
C27_Witness ==
    /\ numberOfWorkers = 1 /\ poolSize = 2
    /\ senderPc[3] = "none"
    /\ enqueued = <<2, 1>>
    /\ dequeued = <<2, 1>>

\* the sending goroutines parked on their select
WaitingSenders == {d \in Items : senderPc[d] = "blocked"}

\* C28: nothing limits the sending goroutines: the next Dispatch call can
\* always be made, however many senders wait and whatever poolSize and
\* numberOfWorkers are; a sender that reaches its select while the send
\* cannot proceed parks beside the senders already waiting; and a waiting
\* sender leaves only by its own send or its own timeout
C28_WaitingSendersUnbounded ==
    /\ [](\A d \in Items :
            (senderPc[d] = "none" /\ \A e \in Items : e < d => senderPc[e] # "none")
                => ENABLED Dispatch(d))
    /\ [][\A d \in Items :
            /\ (senderPc[d] = "spawned" /\ senderPc'[d] # "spawned"
                    /\ ~ChannelCanSend) =>
                  WaitingSenders' = WaitingSenders \cup {d}
            /\ (senderPc[d] = "blocked" /\ senderPc'[d] # "blocked") =>
                  /\ senderPc'[d] \in {"sent", "reportTimeout"}
                  /\ WaitingSenders' = WaitingSenders \ {d}
       ]_vars

\* C28 witness: no buffer and one worker, busy with the first item: the
\* senders of the two later Dispatch calls wait at the same time, more than
\* poolSize and more than numberOfWorkers
C28_Witness ==
    /\ poolSize = 0 /\ numberOfWorkers = 1
    /\ workerPc[1] = "fn" /\ workerItem[1] = 1
    /\ WaitingSenders = Items \ {1}
    /\ Cardinality(WaitingSenders) > poolSize
    /\ Cardinality(WaitingSenders) > numberOfWorkers

\* C29: with maxGoRoutines = 0 the guard is an unbuffered channel without a
\* receiver: no call is ever admitted, no goroutine is started and no fn is
\* invoked; every call parks on its select, leaves it only by the timer with
\* exactly one admission-timeout report, and returns; every call made does
\* return that way
C29_ZeroCapacityAdmitsNothing ==
    /\ [](maxGoRoutines = 0 =>
            /\ guard = 0
            /\ \A i \in Calls :
                  /\ acquired[i] = 0 /\ taskPc[i] = "none"
                  /\ fnCalls[i] = 0 /\ fnResult[i] = "none"
                  /\ callerPc[i] \in {"idle", "blocked"} => reports[i] = << >>
                  /\ callerPc[i] \in {"reportTimeout", "returned"} =>
                        reports[i] = << GuardTimeoutReport("caller") >>)
    /\ [][maxGoRoutines = 0 =>
            \A i \in Calls :
                callerPc'[i] # callerPc[i] =>
                    <<callerPc[i], callerPc'[i]>> \in
                        {<<"idle", "blocked">>, <<"blocked", "reportTimeout">>,
                         <<"reportTimeout", "returned">>}
       ]_vars
    /\ \A i \in Calls :
          (maxGoRoutines = 0 /\ callerPc[i] = "blocked")
              ~> (callerPc[i] = "returned"
                    /\ reports[i] = << GuardTimeoutReport("caller") >>)

\* C29 witness: a launcher of capacity 0 on which every call was made: each
\* has returned with one admission-timeout report and no fn was invoked
C29_Witness ==
    /\ maxGoRoutines = 0
    /\ \A i \in Calls :
          /\ callerPc[i] = "returned"
          /\ reports[i] = << GuardTimeoutReport("caller") >>
          /\ fnCalls[i] = 0

\* ------------------------------------------- properties: launcher and pool

\* C15 as stated, for a launcher with a slot or more and for a pool: the
\* reporter is never invoked on the caller's goroutine: no report is made by
\* the caller and none exists for a RunAsync call that has not returned
C15_ReporterNeverOnCaller ==
    /\ maxGoRoutines >= 1 => \A i \in Calls :
        /\ \A n \in 1..Len(reports[i]) : reports[i][n].unit # "caller"
        /\ callerPc[i] \notin {"off", "returned"} => reports[i] = << >>
    /\ \A d \in Items :
          \A n \in 1..Len(poolReports[d]) : poolReports[d][n].unit # "caller"

\* C15 amended: an error or a panic of fn is reported by the goroutine of the
\* task, after RunAsync has returned; a Dispatch timeout by the goroutine that
\* Dispatch started and errors and panics of the handler by the worker; the
\* admission timeout of RunAsync alone is reported by the caller's goroutine,
\* inside the RunAsync call, which returns after the reporter
C15_OnlyGuardTimeoutOnCaller ==
    /\ \A i \in Calls :
        /\ \A n \in 1..Len(reports[i]) :
              reports[i][n].unit =
                  IF reports[i][n].kind = "async timeout while waiting to guard"
                  THEN "caller" ELSE "task"
        /\ callerPc[i] \in {"off", "idle", "blocked"} => reports[i] = << >>
        /\ callerPc[i] = "reportTimeout" =>
              reports[i] = << GuardTimeoutReport("caller") >>
        /\ (\E n \in 1..Len(reports[i]) : reports[i][n].unit = "task") =>
              /\ callerPc[i] = "returned"
              /\ taskPc[i] \in {"reporting", "cancel", "release", "done"}
    /\ \A d \in Items :
        /\ \A n \in 1..Len(poolReports[d]) :
              poolReports[d][n].unit =
                  IF poolReports[d][n].kind =
                     "pool.Dispatch channel is full, timeout waiting for dispatch"
                  THEN "sender" ELSE "worker"
        /\ senderPc[d] \in {"off", "none", "spawned", "blocked"} =>
              poolReports[d] = << >>

\* C15 witness: a RunAsync call is inside the reporter of its admission
\* timeout and has not returned, while the goroutine of an earlier call has
\* reported the error of its fn
C15_Witness ==
    \E i, j \in Calls :
        /\ callerPc[j] = "reportTimeout"
        /\ reports[j] = << GuardTimeoutReport("caller") >>
        /\ fnResult[i] = "err"
        /\ reports[i] = << FuncFailedReport("task") >>

\* C17: fn and the pool handler are invoked at most once per submission, and
\* exactly once for a task that has ended; a task that returned nil has no
\* report at all, a task that returned an error has exactly one report, the
\* wrapped error
C17_NilSilentErrorReportedOnce ==
    /\ \A i \in Calls :
        /\ fnCalls[i] <= 1
        /\ fnResult[i] # "none" => fnCalls[i] = 1
        /\ fnResult[i] = "nil" => reports[i] = << >>
        /\ fnResult[i] = "err" => reports[i] = << FuncFailedReport("task") >>
    /\ \A d \in Items :
        /\ handled[d] <= 1
        /\ handlerResult[d] # "none" => handled[d] = 1
        /\ handlerResult[d] = "nil" => poolReports[d] = << >>
        /\ handlerResult[d] = "err" =>
              poolReports[d] = << HandleDataReport("worker") >>

\* C17 witness: the pool is idle again after a handler returned nil, without
\* a report, and another returned an error, with one report; each ran once
C17_Witness ==
    /\ PoolQuiescent
    /\ \E d, e \in Items :
        /\ handlerResult[d] = "nil" /\ finished[d] = 1 /\ handled[d] = 1
        /\ poolReports[d] = << >>
        /\ handlerResult[e] = "err" /\ finished[e] = 1 /\ handled[e] = 1
        /\ Len(poolReports[e]) = 1

\* the reports a task that ended by outcome o has made, reported by unit u
\* under the error prefix k
ReportsFor(o, k, u) ==
    IF o = "err" THEN << [kind |-> k, unit |-> u] >>
    ELSE IF o = "panic" THEN << [kind |-> "mmasyc recoverPanic", unit |-> u] >>
    ELSE << >>

\* C18: the step by which the deadline of a task expires changes nothing but
\* the error of its context: fn (or the handler) stays where it is and
\* nothing is reported; a handler whose deadline has expired is still running
\* until it ends on its own, and what it ends with is reported as for any
\* task, an error or a panic exactly once
C18_DeadlineDoesNotStopHandler ==
    /\ [][\A i \in Calls :
            (ctxErr[i] # "DeadlineExceeded" /\ ctxErr'[i] = "DeadlineExceeded") =>
                <<taskPc, fnResult, fnCalls, reports, guard, callerPc>>' =
                <<taskPc, fnResult, fnCalls, reports, guard, callerPc>>
       ]_vars
    /\ [][\A w \in Workers :
            (workerCtxErr[w] # "DeadlineExceeded"
                 /\ workerCtxErr'[w] = "DeadlineExceeded") =>
                <<workerPc, workerItem, handlerResult, handled, poolReports,
                  dataChannel>>' =
                <<workerPc, workerItem, handlerResult, handled, poolReports,
                  dataChannel>>
       ]_vars
    /\ [](\A i \in Calls :
            ctxErr[i] = "DeadlineExceeded" =>
                /\ fnResult[i] = "none" => taskPc[i] = "fn"
                /\ reports[i] = ReportsFor(fnResult[i], "async func failed", "task"))
    /\ [](\A w \in Workers :
            workerCtxErr[w] = "DeadlineExceeded" =>
                /\ workerItem[w] # 0
                /\ handlerResult[workerItem[w]] = "none" => workerPc[w] = "fn"
                /\ poolReports[workerItem[w]] =
                      ReportsFor(handlerResult[workerItem[w]], "async handleData",
                                 "worker"))

\* C18 witness: the deadline of a pool handler expired while it ran; it
\* went on, panicked, and the worker is in the reporter with the one report
\* of the panic
C18_Witness ==
    \E w \in Workers :
        /\ workerCtxErr[w] = "DeadlineExceeded"
        /\ workerPc[w] = "reporting"
        /\ handlerResult[workerItem[w]] = "panic"
        /\ Len(poolReports[workerItem[w]]) = 1

\* ---------------------------------------------------- properties: contexts

\* C11: cancelling the caller's context (or the passing of its deadline), at
\* any moment, never shows in the context asyncContext returns nor in the
\* context fn sees: the former is never done, the latter descends from no
\* cancellation point of the caller and is done only by its own deadline
\* while fn runs, and by the deferred cancel once fn has ended
C11_CallerCancelIsolated ==
    /\ Err(newCtx, errOf) = "nil"
    /\ "caller" \notin Cancellers(newCtx) \cup Cancellers(fnCtx)
    /\ isoPc \in {"fn", "ended"} =>
          Err(fnCtx, errOf) = IF expired THEN "DeadlineExceeded" ELSE "nil"
    /\ isoPc = "torn" =>
          Err(fnCtx, errOf) = IF expired THEN "DeadlineExceeded" ELSE "Canceled"

\* C11 witness: the caller's context is cancelled while fn runs with a
\* context that carries a value copied from it, and fn's context is live
C11_Witness ==
    /\ isoPc = "fn"
    /\ errOf["caller"] = "Canceled"
    /\ Err(callerCtx, errOf) = "Canceled"
    /\ Err(fnCtx, errOf) = "nil"
    /\ \E k \in CtxKeys : Value(fnCtx, k) = "someValue"

\* C12: the context fn sees carries what the rules wrote and nothing else:
\* a key no rule writes is absent, a key some rule writes has a value such a
\* rule read from the caller's context or is absent, and a key that is
\* written only by rules copying it under its own name has the caller's
\* value whenever that is a non-empty string
C12_OnlyPropagatedValues ==
    isoPc \in {"isolated", "fn", "ended", "torn"} =>
        \A k \in CtxKeys :
            LET seen == Value(IF isoPc = "isolated" THEN newCtx ELSE fnCtx, k)
                writers == {n \in 1..Len(rules) : rules[n].dst = k}
            IN  /\ writers = {} => seen = NoValue
                /\ seen \in {Value(callerCtx, rules[n].src) : n \in writers}
                             \cup {NoValue}
                /\ ( /\ writers # {}
                     /\ \A n \in writers : rules[n].src = k
                     /\ Value(callerCtx, k) \notin {NoValue, ""} ) =>
                      seen = Value(callerCtx, k)

\* C12 witness: the caller's context carries both keys, one rule copies one
\* of them, and fn sees that one and not the other
C12_Witness ==
    /\ isoPc = "fn"
    /\ \A k \in CtxKeys : Value(callerCtx, k) = "someValue"
    /\ Len(rules) = 1
    /\ rules[1].src = rules[1].dst
    /\ Value(fnCtx, rules[1].dst) = "someValue"
    /\ \E k \in CtxKeys : k # rules[1].dst /\ Value(fnCtx, k) = NoValue

\* the layers the rules write, in registration order: the launcher's
\* propagators always write what they read from the caller's context, the
\* pool's injectors write it when it is a non-empty string
WritingRules ==
    IF flavour = "Pool"
    THEN SelectSeq(rules, LAMBDA r : Value(callerCtx, r.src) \notin {NoValue, ""})
    ELSE rules

\* C24: the isolated context is the empty context followed by one layer for
\* each writing rule, in registration order, each holding the value the rule
\* read from the caller's context (not from the output of an earlier rule):
\* with zero rules it carries no value, and for a key several rules write
\* the handler observes the value of the rule registered last
C24_RulesInRegistrationOrder ==
    isoPc \in {"isolated", "fn", "ended", "torn"} =>
        /\ Len(newCtx) = Len(WritingRules)
        /\ \A n \in 1..Len(WritingRules) :
              newCtx[n] = [layer |-> "value",
                           key |-> WritingRules[n].dst,
                           val |-> Value(callerCtx, WritingRules[n].src)]
        /\ rules = << >> =>
              newCtx = Background /\ \A k \in CtxKeys : Value(newCtx, k) = NoValue
        /\ \A k \in CtxKeys :
              LET writers == {n \in 1..Len(WritingRules) : WritingRules[n].dst = k}
                  last == CHOOSE n \in writers : \A m \in writers : m <= n
              IN  writers # {} =>
                    /\ Value(newCtx, k) = Value(callerCtx, WritingRules[last].src)
                    /\ isoPc # "isolated" =>
                          Value(fnCtx, k) = Value(newCtx, k)

\* C24 witness: two rules write the same key from two keys of the caller's
\* context that hold different values, and fn observes the value of the
\* rule registered second
C24_Witness ==
    /\ flavour = "Async"
    /\ isoPc = "fn"
    /\ Len(rules) = 2
    /\ rules[1].dst = rules[2].dst
    /\ rules[1].src # rules[2].src
    /\ Value(callerCtx, rules[1].src) = ""
    /\ Value(callerCtx, rules[2].src) = "someValue"
    /\ Value(fnCtx, rules[2].dst) = "someValue"

\* ------------------------------------------ properties: pool construction

\* the per-task timeout the options ask for: the argument of the last
\* WithPoolTimeoutForFN, the default without one
ConfiguredTimeoutForFN ==
    LET given == {n \in 1..Len(poolOptions) :
                     poolOptions[n].name = "WithPoolTimeoutForFN"}
    IN  IF given = {} THEN defaultTimeoutForGoRoutine
        ELSE poolOptions[CHOOSE n \in given : \A m \in given : m <= n].arg

\* C25: the timeout every worker hands to WithTimeout for an item it handles
\* is the one configured through WithPoolTimeoutForFN, and the 5s default
\* without the option
C25_OptionIsWorkerDeadline ==
    \A x \in derived : x.timeout = ConfiguredTimeoutForFN

====
